---- MODULE Spec2Model ----
(***************************************************************************)
(* Model of the Apple II DOS 3.3 disk-image tools of xasm++:               *)
(*   scripts/disk-tools/make_disk_image.py  (class DiskImage)              *)
(*   scripts/disk-tools/verify_disk.py      (verify_disk_image)            *)
(*                                                                         *)
(* A Python bytes/bytearray value is represented sparsely as a record      *)
(*   [len |-> n, nz |-> f]                                                 *)
(* where n is its length and f maps exactly the 0-based offsets of its     *)
(* non-zero bytes to their values (1..255); every other offset below n     *)
(* holds 0.  Slicing and slice assignment follow Python's rules, including *)
(* negative indices, clamping and the length change of a slice assignment. *)
(* File and volume names are sequences of character codes.                 *)
(***************************************************************************)
EXTENDS Integers, Sequences, FiniteSets, TLC

VARIABLES
    data,      \* DiskImage.data, the image buffer
    name,      \* DiskImage.name
    format,    \* DiskImage.format
    prev,      \* the image buffer before the last operation
    op,        \* the last operation: its name, arguments and outcome
    ret,       \* the value returned by the last get_sector
    hist,      \* names of the operations called on the image so far
    report,    \* result of the last verify_disk_image run on the saved image
    twin,      \* a second DiskImage, built with another volume name, that is
               \* given the same calls as the first
    a2,        \* a run of the A2oSX validation suite (validation_suite.py)
    rg,        \* a run of the regression runner (run_regression.py)
    pop        \* a run of the Prince of Persia suite (test_pop_complete.py)

\* the state of the disk tools and of the test harnesses
diskVars == <<data, name, format, prev, op, ret, hist, report, twin>>
harnessVars == <<a2, rg, pop>>

vars == <<data, name, format, prev, op, ret, hist, report, twin, a2, rg, pop>>

\* Number of DiskImage operations in one run of the model.
MaxOps == 2

-----------------------------------------------------------------------------
(* Program constants *)

TRACKS_PER_DISK == 35
SECTORS_PER_TRACK == 16
BYTES_PER_SECTOR == 256
DISK_SIZE == TRACKS_PER_DISK * SECTORS_PER_TRACK * BYTES_PER_SECTOR

DOS33_VTOC_TRACK == 17
DOS33_VTOC_SECTOR == 0
DOS33_CATALOG_TRACK == 17
DOS33_CATALOG_SECTOR == 1

\* verify_disk.py has its own copies of the geometry
V_DISK_SIZE == 143360
V_BYTES_PER_SECTOR == 256

MAX_NAME == 30

-----------------------------------------------------------------------------
(* Python bytes / bytearray *)

\* bytearray(n)
ZeroBytes(n) == [len |-> n, nz |-> [i \in {} |-> 0]]

\* b[i] for 0 <= i < len(b)
ByteAt(b, i) == IF i \in DOMAIN b.nz THEN b.nz[i] ELSE 0

\* b[i] = v for 0 <= i < len(b), 0 <= v <= 255
SetByte(b, i, v) ==
    [len |-> b.len,
     nz  |-> [k \in (IF v = 0 THEN DOMAIN b.nz \ {i} ELSE DOMAIN b.nz \cup {i})
                |-> IF k = i THEN v ELSE b.nz[k]]]

\* Python's normalisation of a slice bound against a length n
SliceIndex(i, n) ==
    IF i < 0 THEN (IF i + n < 0 THEN 0 ELSE i + n)
             ELSE (IF i > n THEN n ELSE i)

SliceStart(b, lo) == SliceIndex(lo, b.len)

SliceStop(b, lo, hi) ==
    IF SliceIndex(hi, b.len) < SliceIndex(lo, b.len)
    THEN SliceIndex(lo, b.len) ELSE SliceIndex(hi, b.len)

\* b[lo:hi]
PySlice(b, lo, hi) ==
    LET s == SliceStart(b, lo)
        e == SliceStop(b, lo, hi)
    IN [len |-> e - s,
        nz  |-> [k \in {j - s : j \in {i \in DOMAIN b.nz : i >= s /\ i < e}}
                   |-> b.nz[k + s]]]

\* b[lo:hi] = p  (bytearray slice assignment; the length changes by
\* len(p) minus the length of the slice replaced)
PySliceAssign(b, lo, hi, p) ==
    LET s == SliceStart(b, lo)
        e == SliceStop(b, lo, hi)
        delta == p.len - (e - s)
        dom == {i \in DOMAIN b.nz : i < s}
                 \cup {s + k : k \in DOMAIN p.nz}
                 \cup {i + delta : i \in {j \in DOMAIN b.nz : j >= e}}
    IN [len |-> b.len + delta,
        nz  |-> [i \in dom |-> IF i < s THEN b.nz[i]
                               ELSE IF i < s + p.len THEN p.nz[i - s]
                               ELSE b.nz[i - delta]]]

\* name[:n] on a sequence of character codes
Prefix(str, n) == IF Len(str) > n THEN SubSeq(str, 1, n) ELSE str

-----------------------------------------------------------------------------
(* DiskImage *)

\* a constructor that stores the volume name at the start of the buffer
DiskImage_NameInData(format_, name_) ==
    [format |-> format_,
     name   |-> Prefix(name_, MAX_NAME),
     data   |-> [len |-> DISK_SIZE,
                 nz  |-> [i \in 0..(Len(Prefix(name_, MAX_NAME)) - 1) |-> name_[i + 1]]]]

\* DiskImage.__init__
DiskImage(format_, name_) ==
    [format |-> format_,
     name   |-> Prefix(name_, MAX_NAME),
     data   |-> ZeroBytes(DISK_SIZE)]

\* sectorOffset with the tracks-per-disk constant used as the track stride
sectorOffset_WrongStride(track, sector) ==
    (track * TRACKS_PER_DISK + sector) * BYTES_PER_SECTOR

\* the byte offset of a sector, as computed by get_sector and set_sector
sectorOffset(track, sector) ==
    (track * SECTORS_PER_TRACK + sector) * BYTES_PER_SECTOR

\* the address check with > written for >=
InvalidAddress_OffByOne(track, sector) ==
    track > TRACKS_PER_DISK \/ sector > SECTORS_PER_TRACK

\* the address check of get_sector and set_sector
InvalidAddress(track, sector) ==
    track >= TRACKS_PER_DISK \/ sector >= SECTORS_PER_TRACK

\* the payload check with >= written for >
DataTooLarge_OffByOne(p) == p.len >= BYTES_PER_SECTOR

\* the payload check of set_sector
DataTooLarge(p) == p.len > BYTES_PER_SECTOR

\* DiskImage.get_sector
get_sector(d, track, sector) ==
    IF InvalidAddress(track, sector)
    THEN [status |-> "ValueError", msg |-> "Invalid track", ret |-> ZeroBytes(0)]
    ELSE LET offset == sectorOffset(track, sector)
         IN [status |-> "ok", msg |-> "",
             ret |-> PySlice(d, offset, offset + BYTES_PER_SECTOR)]

\* an item assignment through a returned buffer that is a view of the image
store_in_returned_View(d, offset, r, i, v) ==
    [data |-> IF offset >= 0 /\ offset + i < d.len THEN SetByte(d, offset + i, v) ELSE d,
     ret  |-> SetByte(r, i, v)]

\* r[i] = v by the caller on the buffer r that get_sector returned for the
\* sector at `offset`: the slice of a bytearray is a new bytearray
store_in_returned(d, offset, r, i, v) ==
    [data |-> d, ret |-> SetByte(r, i, v)]

\* the slice assignment of the payload zero-padded to a whole sector
WriteAt_ZeroPadded(d, offset, p) ==
    IF p.len < BYTES_PER_SECTOR
    THEN PySliceAssign(d, offset, offset + BYTES_PER_SECTOR,
                       [len |-> BYTES_PER_SECTOR, nz |-> p.nz])
    ELSE PySliceAssign(d, offset, offset + p.len, p)

\* the slice assignment replacing a whole sector whatever the payload length
WriteAt_WholeSector(d, offset, p) ==
    PySliceAssign(d, offset, offset + BYTES_PER_SECTOR, p)

\* the slice assignment that ends set_sector
WriteAt(d, offset, p) == PySliceAssign(d, offset, offset + p.len, p)

\* DiskImage.set_sector
set_sector(d, track, sector, p) ==
    IF InvalidAddress(track, sector)
    THEN [status |-> "ValueError", msg |-> "Invalid track", data |-> d]
    ELSE IF DataTooLarge(p)
    THEN [status |-> "ValueError", msg |-> "Data too large", data |-> d]
    ELSE [status |-> "ok", msg |-> "",
          data |-> WriteAt(d, sectorOffset(track, sector), p)]

\* the operation that sets the bit instead: v | (1 << bit)
ClearBit_SetsBit(v, bit) == IF (v \div (2 ^ bit)) % 2 = 1 THEN v ELSE v + (2 ^ bit)

\* v & ~(1 << bit) on a byte value
ClearBit(v, bit) == IF (v \div (2 ^ bit)) % 2 = 1 THEN v - (2 ^ bit) ELSE v

\* the VTOC byte holding the bitmap bit of a sector (4 bytes per track from 0x38)
BitmapByteOffset(track, sector) == 56 + track * 4 + (sector \div 8)

\* the bit of that byte holding the sector's free flag
BitmapBit(sector) == 7 - (sector % 8)

\* the loop of format_dos33 that marks the sectors of the VTOC track used:
\* for sector in range(16), starting at `sector`
RECURSIVE MarkTrackUsed(_, _)
MarkTrackUsed(vtoc, sector) ==
    IF sector >= 16 THEN vtoc
    ELSE LET byte_offset == BitmapByteOffset(DOS33_VTOC_TRACK, sector)
             bit == BitmapBit(sector)
         IN MarkTrackUsed(
                SetByte(vtoc, byte_offset, ClearBit(ByteAt(vtoc, byte_offset), bit)),
                sector + 1)

\* the header with the two bytes-per-sector bytes swapped (big-endian 256)
VtocHeader_SwappedSize ==
    LET v0  == ZeroBytes(BYTES_PER_SECTOR)
        v2  == SetByte(v0, 1, DOS33_CATALOG_TRACK)
        v3  == SetByte(v2, 2, DOS33_CATALOG_SECTOR)
        v4  == SetByte(v3, 3, 3)
        v5  == SetByte(v4, 6, 254)
        v6  == SetByte(v5, 39, 122)
        v7  == SetByte(v6, 48, 1)
        v8  == SetByte(v7, 52, TRACKS_PER_DISK)
        v9  == SetByte(v8, 53, SECTORS_PER_TRACK)
        v10 == SetByte(v9, 54, 1)
        v11 == SetByte(v10, 55, 0)
    IN v11

\* the static header fields format_dos33 writes into the VTOC sector
VtocHeader ==
    LET v0  == ZeroBytes(BYTES_PER_SECTOR)
        v1  == SetByte(v0, 0, 0)                       \* 0x00 not used
        v2  == SetByte(v1, 1, DOS33_CATALOG_TRACK)     \* 0x01 first catalog track
        v3  == SetByte(v2, 2, DOS33_CATALOG_SECTOR)    \* 0x02 first catalog sector
        v4  == SetByte(v3, 3, 3)                       \* 0x03 DOS version
        v5  == SetByte(v4, 6, 254)                     \* 0x06 volume number
        v6  == SetByte(v5, 39, 122)                    \* 0x27 max track/sector pairs
        v7  == SetByte(v6, 48, 1)                      \* 0x30 track direction
        v8  == SetByte(v7, 52, TRACKS_PER_DISK)        \* 0x34 number of tracks
        v9  == SetByte(v8, 53, SECTORS_PER_TRACK)      \* 0x35 sectors per track
        v10 == SetByte(v9, 54, 0)                      \* 0x36 bytes per sector (lo)
        v11 == SetByte(v10, 55, 1)                     \* 0x37 bytes per sector (hi)
    IN v11

\* the VTOC sector format_dos33 writes
BuildVtoc == MarkTrackUsed(VtocHeader, 0)

\* the catalog sector with its next pointer naming the sector itself
BuildCatalog_SelfLink ==
    LET c0 == ZeroBytes(BYTES_PER_SECTOR)
        c1 == SetByte(c0, 1, DOS33_CATALOG_TRACK)
        c2 == SetByte(c1, 2, DOS33_CATALOG_SECTOR)
    IN c2

\* the catalog sector format_dos33 writes
BuildCatalog ==
    LET c0 == ZeroBytes(BYTES_PER_SECTOR)
        c1 == SetByte(c0, 1, DOS33_CATALOG_TRACK)       \* 0x01 next catalog track
        c2 == SetByte(c1, 2, DOS33_CATALOG_SECTOR + 1)  \* 0x02 next catalog sector
    IN c2

\* format_dos33 that blanks the whole image before writing the two sectors
format_dos33_ClearsImage(d) ==
    LET w1 == set_sector(ZeroBytes(d.len), DOS33_VTOC_TRACK, DOS33_VTOC_SECTOR, BuildVtoc)
    IN IF w1.status # "ok" THEN w1
       ELSE set_sector(w1.data, DOS33_CATALOG_TRACK, DOS33_CATALOG_SECTOR, BuildCatalog)

\* DiskImage.format_dos33: an error raised by set_sector propagates
format_dos33(d) ==
    LET w1 == set_sector(d, DOS33_VTOC_TRACK, DOS33_VTOC_SECTOR, BuildVtoc)
    IN IF w1.status # "ok" THEN w1
       ELSE set_sector(w1.data, DOS33_CATALOG_TRACK, DOS33_CATALOG_SECTOR, BuildCatalog)

\* add_file_dos33 writing the first byte and the type of a catalog entry
add_file_dos33_WritesEntry(d, filename, p, file_type, load_address) ==
    [status   |-> "ok", msg |-> "",
     data     |-> SetByte(SetByte(d, (17 * 16 + 1) * 256 + 11, 18),
                          (17 * 16 + 1) * 256 + 13, file_type),
     filename |-> IF Len(filename) > MAX_NAME THEN SubSeq(filename, 1, MAX_NAME)
                  ELSE filename,
     printed  |-> [size |-> p.len, type |-> file_type, load |-> load_address]]

\* add_file_dos33 without the truncation of the name
add_file_dos33_NoTruncate(d, filename, p, file_type, load_address) ==
    [status   |-> "ok", msg |-> "",
     data     |-> d,
     filename |-> filename,
     printed  |-> [size |-> p.len, type |-> file_type, load |-> load_address]]

\* DiskImage.add_file_dos33: truncates the name, prints what it would do and
\* returns; the image is not touched
add_file_dos33(d, filename, p, file_type, load_address) ==
    [status   |-> "ok", msg |-> "",
     data     |-> d,
     filename |-> IF Len(filename) > MAX_NAME THEN SubSeq(filename, 1, MAX_NAME)
                  ELSE filename,
     printed  |-> [size |-> p.len, type |-> file_type, load |-> load_address]]

\* DiskImage.save: the bytes written to the output file
save(d) == d

\* the bytes of a list of byte values, zero-padded to n bytes
BytesOf(values, n) ==
    [len |-> n,
     nz  |-> [i \in {k - 1 : k \in {j \in 1..Len(values) : values[j] # 0}}
                 |-> values[i + 1]]]

\* create_boot_disk: the boot program and its message "HELLO FROM XASM++\r\r"
boot_code ==
    BytesOf(<< 1, 8, 224, 0,
               169, 141, 32, 237, 253, 160, 0,
               185, 32, 8, 240, 9, 32, 237, 253, 200, 76, 10, 8,
               96,
               72, 69, 76, 76, 79, 32, 70, 82, 79, 77, 32,
               88, 65, 83, 77, 43, 43, 13, 13,
               0 >>, BYTES_PER_SECTOR)

\* create_boot_disk with the boot program written to sector (0,1)
create_boot_disk_WrongSector(d) ==
    LET f == format_dos33(d)
    IN IF f.status # "ok" THEN [status |-> f.status, data |-> f.data, saved |-> FALSE]
       ELSE LET w == set_sector(f.data, 0, 1, boot_code)
            IN [status |-> w.status, data |-> w.data, saved |-> w.status = "ok"]

\* create_boot_disk: the image saved (new image, format, boot sector)
create_boot_disk(d) ==
    LET f == format_dos33(d)
    IN IF f.status # "ok" THEN [status |-> f.status, data |-> f.data, saved |-> FALSE]
       ELSE LET w == set_sector(f.data, 0, 0, boot_code)
            IN [status |-> w.status, data |-> w.data, saved |-> w.status = "ok"]

\* str.upper() on ASCII codes
Upper(str) == [i \in 1..Len(str) |-> IF str[i] \in 97..122 THEN str[i] - 32 ELSE str[i]]

\* create_data_disk: the loop that adds the non-empty .bin files
RECURSIVE AddBinFiles(_, _, _)
AddBinFiles(d, bin_files, i) ==
    IF i > Len(bin_files) THEN d
    ELSE IF bin_files[i].data.len > 0
    THEN AddBinFiles(add_file_dos33(d, Upper(bin_files[i].stem), bin_files[i].data,
                                    6, 8192).data,
                     bin_files, i + 1)
    ELSE AddBinFiles(d, bin_files, i + 1)

\* create_data_disk: format, return None when there is no .bin file,
\* otherwise add the files and save
create_data_disk(d, bin_files) ==
    LET f == format_dos33(d)
    IN IF f.status # "ok" THEN [status |-> f.status, data |-> f.data, saved |-> FALSE]
       ELSE IF bin_files = <<>> THEN [status |-> "ok", data |-> f.data, saved |-> FALSE]
       ELSE [status |-> "ok", data |-> AddBinFiles(f.data, bin_files, 1), saved |-> TRUE]

\* create_data_disk: the number of add_file_dos33 calls it makes
AddedCount(bin_files) ==
    Cardinality({i \in 1..Len(bin_files) : bin_files[i].data.len > 0})

-----------------------------------------------------------------------------
(* verify_disk.py *)

\* str.strip() drops leading and trailing whitespace characters
IsSpace(c) == c \in {9, 10, 11, 12, 13, 28, 29, 30, 31, 32}

RECURSIVE LStrip(_)
LStrip(str) ==
    IF str # <<>> /\ IsSpace(Head(str)) THEN LStrip(Tail(str)) ELSE str

RECURSIVE RStrip(_)
RStrip(str) ==
    IF str # <<>> /\ IsSpace(str[Len(str)])
    THEN RStrip(SubSeq(str, 1, Len(str) - 1)) ELSE str

Strip(str) == RStrip(LStrip(str))

\* ''.join(chr(b & 0x7F) for b in filename_bytes if b != 0), from index i on
RECURSIVE DecodeName(_, _)
DecodeName(filename_bytes, i) ==
    IF i >= filename_bytes.len THEN <<>>
    ELSE IF ByteAt(filename_bytes, i) # 0
    THEN <<ByteAt(filename_bytes, i) % 128>> \o DecodeName(filename_bytes, i + 1)
    ELSE DecodeName(filename_bytes, i + 1)

\* offset of catalog entry i in a catalog sector
EntryOffset(i) == 11 + i * 35

\* the test that counts a catalog entry as a file
EntryIsFile(catalog, i) ==
    ByteAt(catalog, EntryOffset(i)) # 0 /\ ByteAt(catalog, EntryOffset(i)) # 255

\* the files printed by the entry loop: for i in range(7), starting at i
RECURSIVE ListFiles(_, _)
ListFiles(catalog, i) ==
    IF i >= 7 THEN <<>>
    ELSE IF EntryIsFile(catalog, i)
    THEN << [file_type |-> ByteAt(catalog, EntryOffset(i)),
             filename  |-> Strip(DecodeName(
                 PySlice(catalog, EntryOffset(i) + 3, EntryOffset(i) + 3 + 30), 0))] >>
         \o ListFiles(catalog, i + 1)
    ELSE ListFiles(catalog, i + 1)

\* an index read b[i] raises IndexError when i is not below len(b)
IndexRaises(b, indices) == \E i \in indices : i >= b.len

\* the overall assessment
OverallValid(size, dos_version) == size = V_DISK_SIZE /\ dos_version = 3

\* the VTOC geometry check
GeometryOk(num_tracks, sectors_per_track) ==
    num_tracks = 35 /\ sectors_per_track = 16

\* verify_disk_image on an existing file holding the bytes img
verify_disk_image(img) ==
    LET size == img.len
        boot_sector == PySlice(img, 0, V_BYTES_PER_SECTOR)
        non_zero == Cardinality(DOMAIN boot_sector.nz)
        vtoc_offset == (17 * 16 + 0) * V_BYTES_PER_SECTOR
        vtoc == PySlice(img, vtoc_offset, vtoc_offset + V_BYTES_PER_SECTOR)
        catalog_offset == (17 * 16 + 1) * V_BYTES_PER_SECTOR
        catalog == PySlice(img, catalog_offset, catalog_offset + V_BYTES_PER_SECTOR)
        files == ListFiles(catalog, 0)
    IN IF IndexRaises(vtoc, {3, 6, 39, 52, 53})
       THEN [status |-> "IndexError", size_ok |-> size = V_DISK_SIZE]
       ELSE IF IndexRaises(catalog, {1, 2} \cup {EntryOffset(i) : i \in 0..6})
       THEN [status |-> "IndexError", size_ok |-> size = V_DISK_SIZE]
       ELSE [status            |-> "ok",
             size_ok           |-> size = V_DISK_SIZE,
             non_zero          |-> non_zero,
             dos_version       |-> ByteAt(vtoc, 3),
             volume_num        |-> ByteAt(vtoc, 6),
             max_pairs         |-> ByteAt(vtoc, 39),
             num_tracks        |-> ByteAt(vtoc, 52),
             sectors_per_track |-> ByteAt(vtoc, 53),
             geometry_ok       |-> GeometryOk(ByteAt(vtoc, 52), ByteAt(vtoc, 53)),
             next_cat_track    |-> ByteAt(catalog, 1),
             next_cat_sector   |-> ByteAt(catalog, 2),
             file_entries      |-> Len(files),
             files             |-> files,
             valid             |-> OverallValid(size, ByteAt(vtoc, 3))]

-----------------------------------------------------------------------------
(* Inputs *)

\* volume names: the default 'DISK' and a 31-character name
NameDISK == <<68, 73, 83, 75>>
NameLong == [i \in 1..(MAX_NAME + 1) |-> 65 + (i % 26)]
NameInputs == {NameDISK, NameLong}

NameHELLO == <<72, 69, 76, 76, 79>>

\* sector addresses: valid ones, the first ones past each bound, negative ones
AddrInputs ==
    { <<0, 0>>, <<17, 0>>, <<17, 1>>, <<17, 2>>, <<34, 15>>,
      <<35, 0>>, <<0, 16>>,
      <<0, -1>>, <<-1, 0>>, <<-36, 0>> }

\* sector payloads of 1, 256, 257 and 3 bytes
Payload1   == [len |-> 1, nz |-> [i \in {0} |-> 255]]
Payload256 == [len |-> BYTES_PER_SECTOR,
               nz  |-> [i \in {0, BYTES_PER_SECTOR - 1} |-> IF i = 0 THEN 165 ELSE 90]]
Payload257 == [len |-> BYTES_PER_SECTOR + 1,
               nz  |-> [i \in {0, BYTES_PER_SECTOR} |-> IF i = 0 THEN 1 ELSE 2]]
\* three bytes that read as a catalog link to sector (34,15)
PayloadLink == [len |-> 3, nz |-> [i \in {1, 2} |-> IF i = 1 THEN 34 ELSE 15]]
PayloadInputs == {Payload1, Payload256, Payload257, PayloadLink}

\* file contents of 0 bytes, 300 bytes and one byte more than the whole disk
File0   == ZeroBytes(0)
File300 == [len |-> 300, nz |-> [i \in {0, 299} |-> IF i = 0 THEN 76 ELSE 96]]
FileBig == [len |-> DISK_SIZE + 1, nz |-> [i \in {0} |-> 1]]

FileInputs ==
    { [filename |-> NameHELLO, data |-> File300, file_type |-> 4, load_address |-> 8192],
      [filename |-> NameLong,  data |-> FileBig, file_type |-> 6, load_address |-> 8192],
      [filename |-> NameHELLO, data |-> File0,   file_type |-> 6, load_address |-> 8192] }

\* the .bin files of an input directory, sorted by name
StemHello == <<104, 101, 108, 108, 111>>
StemMaster == <<109, 97, 115, 116, 101, 114>>
BinFileLists ==
    { <<>>,
      << [stem |-> StemHello, data |-> File300] >>,
      << [stem |-> StemHello, data |-> File0] >>,
      << [stem |-> StemHello, data |-> File300], [stem |-> StemMaster, data |-> FileBig] >> }

-----------------------------------------------------------------------------
(* State machine *)

NoReport == [status |-> "none"]

OpRecord(opname, track, sector, payload, filename, file_type, status, msg) ==
    [name |-> opname, track |-> track, sector |-> sector, payload |-> payload,
     filename |-> filename, file_type |-> file_type, status |-> status, msg |-> msg]

\* no second DiskImage
NoTwin == [format |-> "none", name |-> <<>>, data |-> ZeroBytes(0)]

\* no test harness is running
NotRunning == [pc |-> "idle"]
HarnessIdle == a2 = NotRunning /\ rg = NotRunning /\ pop = NotRunning

\* the DiskImage of create_boot_disk and create_data_disk is local to them:
\* no method is called on it after they return
DiskLive == op.name \notin {"create_boot_disk", "create_data_disk"}

\* DiskImage.__init__(format='dos33', name=n)
Init ==
    /\ HarnessIdle
    /\ \E n \in NameInputs : \E m \in NameInputs \ {n} :
          /\ name = DiskImage("dos33", n).name
          /\ format = DiskImage("dos33", n).format
          /\ data = DiskImage("dos33", n).data
          /\ twin = DiskImage("dos33", m)
    /\ prev = ZeroBytes(DISK_SIZE)
    /\ op = OpRecord("new", 0, 0, ZeroBytes(0), <<>>, 0, "ok", "")
    /\ ret = ZeroBytes(0)
    /\ hist = <<>>
    /\ report = NoReport

GetSector ==
    /\ DiskLive
    /\ Len(hist) < MaxOps
    /\ \E a \in AddrInputs :
         LET r == get_sector(data, a[1], a[2])
         IN /\ ret' = r.ret
            /\ op' = OpRecord("get_sector", a[1], a[2], ZeroBytes(0), <<>>, 0,
                              r.status, r.msg)
    /\ prev' = data
    /\ hist' = Append(hist, "get_sector")
    /\ report' = NoReport
    /\ UNCHANGED <<data, name, format, twin>>
    /\ UNCHANGED harnessVars

SetSector ==
    /\ DiskLive
    /\ Len(hist) < MaxOps
    /\ \E a \in AddrInputs, p \in PayloadInputs :
         LET r == set_sector(data, a[1], a[2], p)
         IN /\ data' = r.data
            /\ twin' = [twin EXCEPT !.data = set_sector(twin.data, a[1], a[2], p).data]
            /\ op' = OpRecord("set_sector", a[1], a[2], p, <<>>, 0, r.status, r.msg)
    /\ prev' = data
    /\ ret' = ZeroBytes(0)
    /\ hist' = Append(hist, "set_sector")
    /\ report' = NoReport
    /\ UNCHANGED <<name, format>>
    /\ UNCHANGED harnessVars

FormatDos33 ==
    /\ DiskLive
    /\ Len(hist) < MaxOps
    /\ LET r == format_dos33(data)
       IN /\ data' = r.data
          /\ twin' = [twin EXCEPT !.data = format_dos33(twin.data).data]
          /\ op' = OpRecord("format_dos33", 0, 0, ZeroBytes(0), <<>>, 0, r.status, r.msg)
    /\ prev' = data
    /\ ret' = ZeroBytes(0)
    /\ hist' = Append(hist, "format_dos33")
    /\ report' = NoReport
    /\ UNCHANGED <<name, format>>
    /\ UNCHANGED harnessVars

AddFileDos33 ==
    /\ DiskLive
    /\ Len(hist) < MaxOps
    /\ \E f \in FileInputs :
         LET r == add_file_dos33(data, f.filename, f.data, f.file_type, f.load_address)
         IN /\ data' = r.data
            /\ twin' = [twin EXCEPT !.data =
                            add_file_dos33(twin.data, f.filename, f.data, f.file_type,
                                           f.load_address).data]
            /\ op' = OpRecord("add_file_dos33", 0, 0, f.data, r.filename, f.file_type,
                              r.status, r.msg)
    /\ prev' = data
    /\ ret' = ZeroBytes(0)
    /\ hist' = Append(hist, "add_file_dos33")
    /\ report' = NoReport
    /\ UNCHANGED <<name, format>>
    /\ UNCHANGED harnessVars

\* the caller changes byte 0 of the buffer the last get_sector returned
StoreInReturned ==
    /\ DiskLive
    /\ op.name = "get_sector" /\ op.status = "ok" /\ ret.len > 0
    /\ LET offset == sectorOffset(op.track, op.sector)
           v == 255 - ByteAt(ret, 0)
           r == store_in_returned(data, offset, ret, 0, v)
       IN /\ data' = r.data
          /\ ret' = r.ret
          /\ twin' = [twin EXCEPT !.data =
                          store_in_returned(twin.data, offset, ret, 0, v).data]
    /\ prev' = data
    /\ op' = [op EXCEPT !.name = "store_in_returned"]
    /\ report' = NoReport
    /\ UNCHANGED <<name, format, hist>>
    /\ UNCHANGED harnessVars

\* create_boot_disk(output_dir, name) on its new DiskImage
CreateBootDisk ==
    /\ hist = <<>>
    /\ LET r == create_boot_disk(data)
       IN /\ data' = r.data
          /\ twin' = [twin EXCEPT !.data = create_boot_disk(twin.data).data]
          /\ op' = OpRecord("create_boot_disk", 0, 0, boot_code, <<>>, 0,
                            IF r.saved THEN "ok" ELSE r.status, "")
    /\ prev' = data
    /\ ret' = ZeroBytes(0)
    /\ hist' = <<"create_boot_disk">>
    /\ report' = NoReport
    /\ UNCHANGED <<name, format>>
    /\ UNCHANGED harnessVars

\* create_data_disk(input_dir, output_dir, name) on its new DiskImage; the
\* status is "None" when it returns without saving an image, and the record
\* holds the number of .bin files (track) and of files added (sector)
CreateDataDisk ==
    /\ hist = <<>>
    /\ \E bin_files \in BinFileLists :
         LET r == create_data_disk(data, bin_files)
         IN /\ data' = r.data
            /\ twin' = [twin EXCEPT !.data = create_data_disk(twin.data, bin_files).data]
            /\ op' = OpRecord("create_data_disk", Len(bin_files), AddedCount(bin_files), ZeroBytes(0),
                              <<>>, 6, IF r.saved THEN "ok" ELSE "None", "")
    /\ prev' = data
    /\ ret' = ZeroBytes(0)
    /\ hist' = <<"create_data_disk">>
    /\ report' = NoReport
    /\ UNCHANGED <<name, format>>
    /\ UNCHANGED harnessVars

\* disk.save(path) followed by verify_disk.py on the saved file
VerifyDisk ==
    /\ report.status = "none"
    /\ op.status # "None"
    /\ report' = verify_disk_image(save(data))
    /\ UNCHANGED <<data, name, format, prev, op, ret, hist, twin>>
    /\ UNCHANGED harnessVars

Next ==
    \/ GetSector
    \/ SetSector
    \/ FormatDos33
    \/ AddFileDos33
    \/ StoreInReturned
    \/ CreateBootDisk
    \/ CreateDataDisk
    \/ VerifyDisk

Spec == Init /\ [][Next]_vars

-----------------------------------------------------------------------------
(* Vocabulary of the properties *)

ValidTracks == 0..(TRACKS_PER_DISK - 1)
ValidSectors == 0..(SECTORS_PER_TRACK - 1)
ValidAddrs == ValidTracks \X ValidSectors

IsValidAddr(track, sector) == track \in ValidTracks /\ sector \in ValidSectors

\* the sector's byte range as the specification states it
RangeLo(track, sector) == (track * 16 + sector) * 256
RangeHi(track, sector) == (track * 16 + sector) * 256 + 256

\* image offsets of the VTOC and of the first catalog sector
VtocAt == (17 * 16 + 0) * 256
CatalogAt == (17 * 16 + 1) * 256

\* byte i of two images agree
SameByte(a, b, i) == ByteAt(a, i) = ByteAt(b, i)

\* the bitmap bit of a sector in the VTOC of an image (1 = free)
SectorFree(img, track, sector) ==
    (ByteAt(img, VtocAt + BitmapByteOffset(track, sector))
        \div (2 ^ BitmapBit(sector))) % 2 = 1

FreeSectors(img) ==
    Cardinality({a \in ValidAddrs : SectorFree(img, a[1], a[2])})

\* the catalog chain of an image from sector (track, sector), at most n hops:
\* the sectors visited, and whether the terminator (next track 0) was reached
RECURSIVE ChainSectors(_, _, _, _)
ChainSectors(img, track, sector, n) ==
    IF track = 0 \/ n = 0 \/ ~IsValidAddr(track, sector) THEN <<>>
    ELSE <<<<track, sector>>>> \o
         ChainSectors(img, ByteAt(img, RangeLo(track, sector) + 1),
                           ByteAt(img, RangeLo(track, sector) + 2), n - 1)

RECURSIVE ChainTerminates(_, _, _, _)
ChainTerminates(img, track, sector, n) ==
    IF track = 0 THEN TRUE
    ELSE IF n = 0 \/ ~IsValidAddr(track, sector) THEN FALSE
    ELSE ChainTerminates(img, ByteAt(img, RangeLo(track, sector) + 1),
                              ByteAt(img, RangeLo(track, sector) + 2), n - 1)

\* the chain rooted at the VTOC's first-catalog pointer
CatalogChain(img) ==
    ChainSectors(img, ByteAt(img, VtocAt + 1), ByteAt(img, VtocAt + 2), TRACKS_PER_DISK)

CatalogChainWellFormed(img) ==
    /\ ChainTerminates(img, ByteAt(img, VtocAt + 1), ByteAt(img, VtocAt + 2),
                       TRACKS_PER_DISK)
    /\ \A i, j \in 1..Len(CatalogChain(img)) :
          i # j => CatalogChain(img)[i] # CatalogChain(img)[j]

\* live entries (slot not unused, not deleted) of the catalog sectors on the chain
LiveEntries(img) ==
    {e \in {<<CatalogChain(img)[k], i>> : k \in 1..Len(CatalogChain(img)), i \in 0..6} :
        LET at == RangeLo(e[1][1], e[1][2]) + EntryOffset(e[2])
        IN ByteAt(img, at) # 0 /\ ByteAt(img, at) # 255}

-----------------------------------------------------------------------------
(* Properties *)

\* C1 (part): the 560 sector ranges are pairwise disjoint
OffsetsDisjoint ==
    \A a, b \in ValidAddrs :
        a # b => \/ sectorOffset(a[1], a[2]) + 256 <= sectorOffset(b[1], b[2])
                 \/ sectorOffset(b[1], b[2]) + 256 <= sectorOffset(a[1], a[2])

\* C1 (part): every 256-byte block [k*256, k*256+256) of [0, 143360) is the
\* range of some valid address, so the ranges cover [0, 143360)
OffsetsCover ==
    \A k \in 0..(143360 \div 256 - 1) :
        \E a \in ValidAddrs : sectorOffset(a[1], a[2]) = k * 256

\* C1: for every valid (track, sector) the offset used by get_sector and
\* set_sector is (track*16 + sector)*256; the 560 ranges [offset, offset+256)
\* are pairwise disjoint and cover [0, 143360) exactly once.  The last
\* get_sector/set_sector on a valid address read/wrote exactly at that offset.
C1_SectorOffsetBijective ==
    /\ \A a \in ValidAddrs : sectorOffset(a[1], a[2]) = (a[1] * 16 + a[2]) * 256
    /\ OffsetsDisjoint
    /\ OffsetsCover
    /\ (op.name = "get_sector" /\ IsValidAddr(op.track, op.sector)) =>
          /\ op.status = "ok"
          /\ ret = PySlice(prev, RangeLo(op.track, op.sector),
                                 RangeHi(op.track, op.sector))
    /\ (op.name = "set_sector" /\ IsValidAddr(op.track, op.sector)
                               /\ op.status = "ok") =>
          PySlice(data, RangeLo(op.track, op.sector),
                        RangeLo(op.track, op.sector) + op.payload.len) = op.payload

\* C1 witness: the last sector (34, 15) has been written and the write landed
\* in the last 256 bytes of the image
C1_Witness ==
    /\ op.name = "set_sector" /\ op.status = "ok"
    /\ op.track = 34 /\ op.sector = 15
    /\ op.payload.len = 256
    /\ ByteAt(data, 143360 - 256) = 165 /\ ByteAt(data, 143360 - 1) = 90

\* C2: immediately after format_dos33 on a new image the VTOC bitmap marks
\* every sector of track 17 used and every sector of every other track free.
C2_BitmapAfterFormat ==
    (hist = <<"format_dos33">> /\ op.status = "ok") =>
        \A a \in ValidAddrs : SectorFree(data, a[1], a[2]) <=> (a[1] # 17)

\* C3: the verifier run on a freshly formatted image with no files added
\* gives a valid verdict, a passing geometry check (35 tracks, 16 sectors per
\* track, DOS version 3) and zero files, and the image's catalog chain is
\* well-formed (reaches the terminator without a repeat) and has no live entry.
C3_VerifyFreshImage ==
    (hist = <<"format_dos33">> /\ report.status # "none") =>
        /\ report.status = "ok"
        /\ report.valid
        /\ report.size_ok
        /\ report.geometry_ok
        /\ report.num_tracks = 35 /\ report.sectors_per_track = 16
        /\ report.dos_version = 3
        /\ report.file_entries = 0 /\ report.files = <<>>
        /\ CatalogChain(data) =
              << <<17, 1>>, <<report.next_cat_track, report.next_cat_sector>> >>
        /\ CatalogChainWellFormed(data)
        /\ LiveEntries(data) = {}

\* C3 witness: the verifier has run on a freshly formatted image
C3_Witness ==
    /\ hist = <<"format_dos33">>
    /\ report.status = "ok"
    /\ ByteAt(data, VtocAt + 3) = 3

\* C4: the image buffer is 143,360 bytes long in every reachable state.
C4_LengthFixed == data.len = 143360

\* C5: get_sector and set_sector fail with the out-of-range error whenever
\* track >= 35 or sector >= 16, and the failing call leaves the buffer unchanged.
C5_OutOfRangeFails ==
    (op.name \in {"get_sector", "set_sector"} /\ (op.track >= 35 \/ op.sector >= 16)) =>
        /\ op.status = "ValueError"
        /\ op.msg = "Invalid track"
        /\ data = prev

\* C5 witness: set_sector failed on track 35 of an image that holds data
C5_Witness ==
    /\ op.name = "set_sector" /\ op.track = 35 /\ op.sector = 0
    /\ op.status = "ValueError"
    /\ DOMAIN prev.nz # {}

\* C6: set_sector on a valid address fails with the sector-overflow error and
\* leaves the buffer unchanged when the payload is longer than 256 bytes, and
\* never fails when the payload is at most 256 bytes long.
C6_SectorOverflow ==
    (op.name = "set_sector" /\ IsValidAddr(op.track, op.sector)) =>
        /\ op.payload.len > 256 =>
              (op.status = "ValueError" /\ op.msg = "Data too large" /\ data = prev)
        /\ op.payload.len <= 256 => op.status = "ok"

\* C6 witness: a 257-byte payload was refused on a valid address of an image
\* that holds data, after a 256-byte payload was accepted
C6_Witness ==
    /\ op.name = "set_sector" /\ IsValidAddr(op.track, op.sector)
    /\ op.payload.len = 257 /\ op.status = "ValueError"
    /\ \E i \in DOMAIN prev.nz : prev.nz[i] = 90

\* C7: a successful set_sector on a valid address changes no byte outside
\* [(track*16+sector)*256, (track*16+sector)*256 + 256) and keeps the length;
\* get_sector changes no byte at all.
C7_FrameOfSetSector ==
    /\ (op.name = "set_sector" /\ IsValidAddr(op.track, op.sector)
                               /\ op.status = "ok") =>
          /\ data.len = prev.len
          /\ \A i \in DOMAIN data.nz \cup DOMAIN prev.nz :
                (i < RangeLo(op.track, op.sector) \/ i >= RangeHi(op.track, op.sector))
                    => SameByte(data, prev, i)
    /\ op.name = "get_sector" => data = prev

\* C7 witness: a 1-byte payload was written to the VTOC sector of a formatted
\* image: the catalog sector behind it still holds its pointer
C7_Witness ==
    /\ op.name = "set_sector" /\ op.status = "ok"
    /\ op.track = 17 /\ op.sector = 0 /\ op.payload.len = 1
    /\ ByteAt(prev, CatalogAt + 1) = 17
    /\ ByteAt(data, VtocAt) = 255

\* C8: after format_dos33 the VTOC sector (track 17, sector 0) holds
\* 0x01 = 17, 0x02 = 1, 0x03 = 3, 0x06 = 254, 0x27 = 122, 0x30 = 1,
\* 0x34 = 35, 0x35 = 16 and 0x36-0x37 = (0x00, 0x01).
C8_VtocFields ==
    (op.name = "format_dos33") =>
        /\ op.status = "ok"
        /\ ByteAt(data, VtocAt + 1) = 17
        /\ ByteAt(data, VtocAt + 2) = 1
        /\ ByteAt(data, VtocAt + 3) = 3
        /\ ByteAt(data, VtocAt + 6) = 254
        /\ ByteAt(data, VtocAt + 39) = 122
        /\ ByteAt(data, VtocAt + 48) = 1
        /\ ByteAt(data, VtocAt + 52) = 35
        /\ ByteAt(data, VtocAt + 53) = 16
        /\ ByteAt(data, VtocAt + 54) = 0
        /\ ByteAt(data, VtocAt + 55) = 1

\* C8 witness: format_dos33 ran on an image whose VTOC sector held other data
C8_Witness ==
    /\ op.name = "format_dos33"
    /\ ByteAt(prev, VtocAt) = 165 /\ ByteAt(prev, VtocAt + 255) = 90
    /\ ByteAt(data, VtocAt + 52) = 35

\* the name field of a catalog entry: the name space-padded to 30 bytes with
\* the high bit set on every byte
NameField(str) == [i \in 0..29 |-> (IF i < Len(str) THEN str[i + 1] ELSE 32) + 128]

\* sectors a file of n bytes needs for its data: ceil(n / 256)
DataSectors(n) == (n + 255) \div 256

UsedSectors(img) == Cardinality(ValidAddrs) - FreeSectors(img)

\* C9: after formatting a new image and adding one 300-byte file "HELLO" the
\* image holds exactly one live catalog entry, with the name field "HELLO"
\* padded to 30 bytes (high bit set) and sector count 2; one TSL sector and two
\* data sectors became used in the bitmap; the verifier reports exactly 1 file.
C9_HelloFileAdded ==
    (/\ hist = <<"format_dos33", "add_file_dos33">>
     /\ op.filename = NameHELLO /\ op.payload.len = 300) =>
        /\ Cardinality(LiveEntries(data)) = 1
        /\ \A e \in LiveEntries(data) :
              LET at == RangeLo(e[1][1], e[1][2]) + EntryOffset(e[2])
              IN /\ \A i \in 0..29 : ByteAt(data, at + 3 + i) = NameField(NameHELLO)[i]
                 /\ ByteAt(data, at + 33) = DataSectors(300)
                 /\ ByteAt(data, at + 34) = 0
        /\ DataSectors(300) = 2
        /\ UsedSectors(data) = UsedSectors(prev) + 1 + DataSectors(300)
        /\ report.status # "none" => (report.status = "ok" /\ report.file_entries = 1)

\* C10: adding a file whose required sector count exceeds the free space of
\* the image fails with DiskFull and leaves the image byte-for-byte unchanged.
C10_DiskFullAtomic ==
    (op.name = "add_file_dos33" /\ DataSectors(op.payload.len) > FreeSectors(prev)) =>
        /\ op.status = "DiskFull"
        /\ data = prev

-----------------------------------------------------------------------------
(* verify_disk.py run on arbitrary image files *)

\* verify_disk_image(disk_path): a path that does not exist is reported and
\* gives False before anything is read
verify_disk_path(exists, img) ==
    IF ~exists THEN [status |-> "ok", found |-> FALSE, valid |-> FALSE]
    ELSE verify_disk_image(img)

\* byte i of an image file set to v, when the file is long enough to hold it
Poke(img, i, v) == IF i < img.len THEN SetByte(img, i, v) ELSE img

\* a catalog entry written at image offset `at`: unused (all zero), deleted
\* (byte 0 = 0xFF) or live (TSL at track 18 sector 5, type 4, name "HELLO",
\* 2 sectors)
PokeName(img, at, str) ==
    IF at + 30 <= img.len
    THEN PySliceAssign(img, at, at + 30, [len |-> 30, nz |-> NameField(str)])
    ELSE img

PokeEntry(img, at, kind) ==
    IF kind = "unused" THEN img
    ELSE IF kind = "deleted" THEN Poke(img, at, 255)
    ELSE LET e0 == Poke(img, at, 18)
             e1 == Poke(e0, at + 1, 5)
             e2 == Poke(e1, at + 2, 4)
             e3 == PokeName(e2, at + 3, NameHELLO)
             e4 == Poke(e3, at + 33, 2)
         IN e4

RECURSIVE PokeEntries(_, _, _, _)
PokeEntries(img, sectorAt, kinds, i) ==
    IF i >= Len(kinds) THEN img
    ELSE PokeEntries(PokeEntry(img, sectorAt + EntryOffset(i), kinds[i + 1]),
                     sectorAt, kinds, i + 1)

\* catalog layouts: the first-catalog pointer of the VTOC, the next pointers
\* of sectors (17,1) and (17,2), and the entries of both sectors
CatalogLayouts ==
    { [first |-> <<17, 1>>, next1 |-> <<0, 0>>,  next2 |-> <<0, 0>>,
       slots1 |-> <<>>, slots2 |-> <<>>],
      [first |-> <<17, 1>>, next1 |-> <<17, 2>>, next2 |-> <<0, 0>>,
       slots1 |-> <<>>, slots2 |-> <<>>],
      [first |-> <<17, 1>>, next1 |-> <<0, 0>>,  next2 |-> <<0, 0>>,
       slots1 |-> <<"live", "deleted", "unused", "live">>, slots2 |-> <<>>],
      [first |-> <<17, 1>>, next1 |-> <<17, 2>>, next2 |-> <<0, 0>>,
       slots1 |-> <<"live">>, slots2 |-> <<"live", "live">>],
      [first |-> <<17, 1>>, next1 |-> <<17, 1>>, next2 |-> <<0, 0>>,
       slots1 |-> <<"live">>, slots2 |-> <<>>],
      [first |-> <<17, 2>>, next1 |-> <<0, 0>>,  next2 |-> <<0, 0>>,
       slots1 |-> <<>>, slots2 |-> <<"live">>] }

\* file lengths: empty, shorter than track 17, cut inside the VTOC, cut
\* inside the catalog sector, one byte short, exact, one sector too long
FileLengths ==
    { 0, 4, (17 * 16) * 256 + 53, (17 * 16 + 1) * 256 + 100,
      DISK_SIZE - 1, DISK_SIZE, DISK_SIZE + 256 }

DosVersions == {3, 2}
Geometries == { <<35, 16>>, <<40, 16>>, <<35, 13>> }

\* an image file of the given length, header and catalog layout
CraftedImage(len, dos, geo, cat) ==
    LET vt == (17 * 16) * 256
        c1 == (17 * 16 + 1) * 256
        c2 == (17 * 16 + 2) * 256
        i0 == ZeroBytes(len)
        i1 == Poke(i0, vt + 1, cat.first[1])
        i2 == Poke(i1, vt + 2, cat.first[2])
        i3 == Poke(i2, vt + 3, dos)
        i4 == Poke(i3, vt + 6, 254)
        i5 == Poke(i4, vt + 39, 122)
        i6 == Poke(i5, vt + 52, geo[1])
        i7 == Poke(i6, vt + 53, geo[2])
        i8 == Poke(i7, c1 + 1, cat.next1[1])
        i9 == Poke(i8, c1 + 2, cat.next1[2])
        i10 == Poke(i9, c2 + 1, cat.next2[1])
        i11 == Poke(i10, c2 + 2, cat.next2[2])
        i12 == PokeEntries(i11, c1, cat.slots1, 0)
        i13 == PokeEntries(i12, c2, cat.slots2, 0)
    IN i13

\* a file handed to verify_disk.py: any of the crafted images, or no file
InitVerify ==
    /\ HarnessIdle
    /\ name = <<>> /\ format = "file" /\ twin = NoTwin
    /\ \/ /\ \E len \in FileLengths, dos \in DosVersions, geo \in Geometries,
                cat \in CatalogLayouts : data = CraftedImage(len, dos, geo, cat)
          /\ op = OpRecord("file", 0, 0, ZeroBytes(0), <<>>, 0, "exists", "")
       \/ /\ data = ZeroBytes(0)
          /\ op = OpRecord("file", 0, 0, ZeroBytes(0), <<>>, 0, "missing", "")
    /\ prev = data
    /\ ret = ZeroBytes(0)
    /\ hist = <<>>
    /\ report = NoReport

\* verify_disk.py <file>
VerifyFile ==
    /\ op.name = "file"
    /\ report.status = "none"
    /\ report' = verify_disk_path(op.status = "exists", data)
    /\ UNCHANGED <<data, name, format, prev, op, ret, hist, twin>>
    /\ UNCHANGED harnessVars

NextVerify == VerifyFile

SpecVerify == InitVerify /\ [][NextVerify]_vars

\* C11: the verifier's verdict is 'valid' if and only if the image length is
\* 143,360, VTOC byte 0x34 = 35 and byte 0x35 = 16, and VTOC byte 0x03 = 3.
C11_VerdictIffAllChecks ==
    (op.name = "file" /\ op.status = "exists" /\ report.status = "ok") =>
        (report.valid <=>
            /\ data.len = 143360
            /\ ByteAt(data, VtocAt + 52) = 35 /\ ByteAt(data, VtocAt + 53) = 16
            /\ ByteAt(data, VtocAt + 3) = 3)

\* C12: for an image of any length the verifier runs every check to the end
\* and returns a pass/fail result; no check raises an error.
C12_VerifierNeverRaises ==
    (op.name = "file" /\ op.status = "exists" /\ report.status # "none") =>
        (report.status = "ok" /\ report.valid \in BOOLEAN)

\* C13: the verifier walks the catalog chain from the VTOC's first-catalog
\* pointer through the next pointers until next track = 0 (at most 35 hops),
\* and the file count it reports is the number of live entries of the catalog
\* sectors on that chain.
C13_VerifierWalksChain ==
    (op.name = "file" /\ op.status = "exists" /\ report.status = "ok") =>
        report.file_entries = Cardinality(LiveEntries(data))

\* the first n characters of a name
FirstChars(str, n) == [i \in 1..(IF Len(str) < n THEN Len(str) ELSE n) |-> str[i]]

\* C14: a file name longer than 30 characters is truncated to its first 30
\* characters without an error: add_file_dos33 succeeds and goes on with that
\* prefix (shorter names are kept whole); the volume name of a DiskImage is
\* the first 30 characters of the name given and never longer than 30.
C14_NameTruncated ==
    /\ Len(name) <= 30
    /\ \E n \in NameInputs : name = FirstChars(n, 30)
    /\ op.name = "add_file_dos33" =>
          /\ op.status = "ok"
          /\ Len(op.filename) <= 30
          /\ \E f \in FileInputs :
                /\ f.data = op.payload /\ f.file_type = op.file_type
                /\ op.filename = FirstChars(f.filename, 30)

\* C14 witness: a file with a 31-character name was added to an image whose
\* volume name was given with 31 characters; both were cut to 30
C14_Witness ==
    /\ op.name = "add_file_dos33" /\ op.status = "ok"
    /\ op.payload = FileBig
    /\ Len(NameLong) = 31
    /\ op.filename = SubSeq(NameLong, 1, 30)
    /\ name = SubSeq(NameLong, 1, 30)

\* C15: the file-add operation rejects zero-length input with EmptyFile and
\* leaves the image unchanged.
C15_EmptyFileRejected ==
    (op.name = "add_file_dos33" /\ op.payload.len = 0) =>
        /\ op.status = "EmptyFile"
        /\ data = prev

-----------------------------------------------------------------------------
(* tests/integration/a2osx/validation_suite.py *)

\* A2oSXValidator.define_tests
A2Tests ==
    << [name |-> "minimal_assembly",     source_file |-> "test_minimal.S",
        expected_status |-> "PASS"],
       [name |-> "eq_directive",         source_file |-> "test_eq.S",
        expected_status |-> "PASS"],
       [name |-> "symbol_addressing",    source_file |-> "test_symbols.S",
        expected_status |-> "BLOCKED"],
       [name |-> "ascii_string",         source_file |-> "test_data_as.S",
        expected_status |-> "PASS"],
       [name |-> "hex_data",             source_file |-> "test_data_hs.S",
        expected_status |-> "PASS"],
       [name |-> "data_bytes",           source_file |-> "test_data_da.S",
        expected_status |-> "PASS"],
       [name |-> "block_storage",        source_file |-> "test_bs.S",
        expected_status |-> "BLOCKED"],
       [name |-> "expression_low_byte",  source_file |-> "test_expr_lo.S",
        expected_status |-> "BLOCKED"],
       [name |-> "expression_high_byte", source_file |-> "test_expr_hi.S",
        expected_status |-> "BLOCKED"],
       [name |-> "expression_offset",    source_file |-> "test_expr_offset.S",
        expected_status |-> "BLOCKED"],
       [name |-> "a2osx_simple",         source_file |-> "sample_simple.S",
        expected_status |-> "BLOCKED"] >>

A2Sources == {A2Tests[k].source_file : k \in 1..Len(A2Tests)}
A2Names == {A2Tests[k].name : k \in 1..Len(A2Tests)}

\* the environment of a run: the source files that do not exist, and the
\* tests on which xasm++ does not succeed (non-zero exit, no output file,
\* timeout or another exception)
A2MissingInputs == { {}, {"test_minimal.S"}, {"test_symbols.S"}, A2Sources }
A2FailingInputs == { {}, {"eq_directive"}, {"block_storage"}, A2Names }

\* A2oSXValidator.run_test: the status recorded for a test, and whether
\* xasm++ is run on it
run_test_status(test, missing, failing) ==
    IF test.source_file \in missing THEN "SKIP"
    ELSE IF test.expected_status = "BLOCKED" THEN "BLOCKED"
    ELSE IF test.name \in failing THEN "FAIL"
    ELSE "PASS"

run_test_invokes(test, missing) ==
    test.source_file \notin missing /\ test.expected_status # "BLOCKED"

\* main: the flags --all and --known-good give run_all's skip_blocked
skip_blocked(all, known_good) == IF known_good THEN TRUE ELSE ~all

\* validation_suite.py is started with its flags in some environment
InitA2 ==
    /\ data = ZeroBytes(0) /\ prev = ZeroBytes(0) /\ ret = ZeroBytes(0)
    /\ name = <<>> /\ format = "none" /\ hist = <<>> /\ report = NoReport
    /\ twin = NoTwin
    /\ op = OpRecord("none", 0, 0, ZeroBytes(0), <<>>, 0, "ok", "")
    /\ rg = NotRunning /\ pop = NotRunning
    /\ \E all \in BOOLEAN, known_good \in BOOLEAN, xasm_exists \in BOOLEAN,
          missing \in A2MissingInputs, failing \in A2FailingInputs :
          a2 = [pc |-> "main", all |-> all, known_good |-> known_good,
                xasm_exists |-> xasm_exists, missing |-> missing,
                failing |-> failing, skip_blocked |-> FALSE, i |-> 1,
                results |-> <<>>, invoked |-> {}, exit |-> 0]

\* main up to run_all: A2oSXValidator(args.xasm) raises FileNotFoundError
\* when the xasm++ path does not exist, and main exits with 1
A2Main ==
    /\ a2.pc = "main"
    /\ a2' = IF ~a2.xasm_exists
             THEN [a2 EXCEPT !.pc = "done", !.exit = 1]
             ELSE [a2 EXCEPT !.pc = "run_all",
                             !.skip_blocked = skip_blocked(a2.all, a2.known_good)]
    /\ UNCHANGED <<diskVars, rg, pop>>

\* one iteration of the loop of run_all
A2RunTest ==
    /\ a2.pc = "run_all"
    /\ a2.i <= Len(A2Tests)
    /\ LET test == A2Tests[a2.i]
       IN a2' = IF a2.skip_blocked /\ test.expected_status = "BLOCKED"
                THEN [a2 EXCEPT !.i = a2.i + 1]
                ELSE [a2 EXCEPT
                        !.i = a2.i + 1,
                        !.results = Append(a2.results,
                            [name |-> test.name,
                             status |-> run_test_status(test, a2.missing, a2.failing)]),
                        !.invoked = IF run_test_invokes(test, a2.missing)
                                    THEN a2.invoked \cup {test.name} ELSE a2.invoked]
    /\ UNCHANGED <<diskVars, rg, pop>>

\* the end of run_all and of main: exit 1 if any result is FAIL
A2Exit ==
    /\ a2.pc = "run_all"
    /\ a2.i > Len(A2Tests)
    /\ a2' = [a2 EXCEPT !.pc = "done",
                        !.exit = IF \E k \in 1..Len(a2.results) :
                                        a2.results[k].status = "FAIL"
                                 THEN 1 ELSE 0]
    /\ UNCHANGED <<diskVars, rg, pop>>

NextA2 ==
    \/ A2Main
    \/ A2RunTest
    \/ A2Exit

SpecA2 == InitA2 /\ [][NextA2]_vars

\* C16: run with --all, every test case whose expected_status is BLOCKED and
\* whose source file exists is executed (xasm++ is invoked on it) and is
\* recorded with PASS or FAIL according to the assembler's outcome.
C16_AllRunsBlockedTests ==
    (a2.pc = "done" /\ a2.xasm_exists /\ a2.all /\ ~a2.known_good) =>
        \A k \in 1..Len(A2Tests) :
            (A2Tests[k].expected_status = "BLOCKED"
                /\ A2Tests[k].source_file \notin a2.missing) =>
                /\ A2Tests[k].name \in a2.invoked
                /\ \E j \in 1..Len(a2.results) :
                      /\ a2.results[j].name = A2Tests[k].name
                      /\ a2.results[j].status =
                            (IF A2Tests[k].name \in a2.failing THEN "FAIL" ELSE "PASS")

-----------------------------------------------------------------------------
(* tests/regression/run_regression.py *)

\* One file of test_files.  in_expected: 'expected' is a component of its
\* path.  xasm: how subprocess.run ends ("zero", "nonzero" exit status,
\* "timeout", "not_found").  writes: what xasm++ writes to actual/<stem>.bin
\* ("none", or a file "same" as / "diff" from the expected binary).  stale:
\* what actual/<stem>.bin held before the run.  expected_exists: whether
\* expected/<stem>.bin exists.
RgFile(in_expected, xasm, writes, stale, expected_exists) ==
    [in_expected |-> in_expected, xasm |-> xasm, writes |-> writes,
     stale |-> stale, expected_exists |-> expected_exists]

RgFileInputs ==
    {RgFile(TRUE, "zero", "same", "none", TRUE)}
    \cup {RgFile(FALSE, x, "none", "none", TRUE) :
              x \in {"nonzero", "timeout", "not_found"}}
    \cup {RgFile(FALSE, "zero", w, st, e) :
              w \in {"none", "same", "diff"}, st \in {"none", "same", "diff"},
              e \in BOOLEAN}

RgFileLists ==
    {<<>>} \cup {<<f>> : f \in RgFileInputs}
           \cup {<<f, g>> : f \in RgFileInputs, g \in RgFileInputs}

\* the positional argument: absent ("all"), an existing file or directory
\* under the test root, an existing file that is not under the test root
\* ("file_outside"), or a path that does not exist ("notfound")
RgModes == {"all", "file", "dir", "file_outside", "notfound"}

\* the content of actual/<stem>.bin after xasm++ ran
RgActual(f) == IF f.writes # "none" THEN f.writes ELSE f.stale

\* run_xasm: success
run_xasm(f) == f.xasm = "zero" /\ RgActual(f) # "none"

\* compare_binaries: match
compare_binaries(f) ==
    f.expected_exists /\ RgActual(f) # "none" /\ RgActual(f) = "same"

\* run_test: True if the test passed
rg_run_test(f) == run_xasm(f) /\ compare_binaries(f)

InitRg ==
    /\ data = ZeroBytes(0) /\ prev = ZeroBytes(0) /\ ret = ZeroBytes(0)
    /\ name = <<>> /\ format = "none" /\ hist = <<>> /\ report = NoReport
    /\ twin = NoTwin
    /\ op = OpRecord("none", 0, 0, ZeroBytes(0), <<>>, 0, "ok", "")
    /\ a2 = NotRunning /\ pop = NotRunning
    /\ \E mode \in RgModes, files \in RgFileLists :
          /\ mode \in {"file", "file_outside"} => Len(files) = 1
          /\ mode = "notfound" => files = <<>>
          /\ rg = [pc |-> "main", mode |-> mode, test_files |-> files,
                   i |-> 1, passed |-> 0, failed |-> 0, ran |-> {},
                   exit |-> "none"]

\* main up to the loop
RgMain ==
    /\ rg.pc = "main"
    /\ rg' = IF rg.mode = "notfound" THEN [rg EXCEPT !.pc = "done", !.exit = "1"]
             ELSE IF rg.test_files = <<>> THEN [rg EXCEPT !.pc = "done", !.exit = "0"]
             ELSE [rg EXCEPT !.pc = "loop"]
    /\ UNCHANGED <<diskVars, a2, pop>>

\* one iteration of the loop of main; run_test raises ValueError at
\* relative_to when the file is not under the test root
RgRunTest ==
    /\ rg.pc = "loop"
    /\ rg.i <= Len(rg.test_files)
    /\ LET f == rg.test_files[rg.i]
       IN rg' = IF f.in_expected THEN [rg EXCEPT !.i = rg.i + 1]
                ELSE IF rg.mode = "file_outside"
                THEN [rg EXCEPT !.pc = "done", !.exit = "ValueError",
                                !.ran = rg.ran \cup {rg.i}]
                ELSE IF rg_run_test(f)
                THEN [rg EXCEPT !.i = rg.i + 1, !.passed = rg.passed + 1,
                                !.ran = rg.ran \cup {rg.i}]
                ELSE [rg EXCEPT !.i = rg.i + 1, !.failed = rg.failed + 1,
                                !.ran = rg.ran \cup {rg.i}]
    /\ UNCHANGED <<diskVars, a2, pop>>

\* the summary and the return value of main
RgSummary ==
    /\ rg.pc = "loop"
    /\ rg.i > Len(rg.test_files)
    /\ rg' = [rg EXCEPT !.pc = "done",
                        !.exit = IF rg.failed > 0 THEN "1" ELSE "0"]
    /\ UNCHANGED <<diskVars, a2, pop>>

NextRg ==
    \/ RgMain
    \/ RgRunTest
    \/ RgSummary

SpecRg == InitRg /\ [][NextRg]_vars

\* the test produced its output file and it is identical to an existing
\* expected binary
RgProducedAndIdentical(f) ==
    f.xasm = "zero" /\ f.writes # "none" /\ f.expected_exists /\ f.writes = "same"

\* C17: main returns 0 if and only if every test it ran had xasm++ exit 0,
\* produce its output file, have an existing expected binary and be
\* byte-for-byte identical to it; otherwise it returns 1.  After the loop,
\* passed + failed equals the number of tests run.
C17_ExitZeroIffAllPass ==
    rg.pc = "done" =>
        /\ rg.exit = "0" <=>
              \A k \in rg.ran : RgProducedAndIdentical(rg.test_files[k])
        /\ rg.exit \in {"0", "1"}
        /\ rg.passed + rg.failed = Cardinality(rg.ran)

-----------------------------------------------------------------------------
(* tests/e2e/apple2/prince_of_persia/test_pop_complete.py *)

POP_FILES ==
    << "AUTO.S", "BGDATA.S", "COLL.S", "CTRL.S", "CTRLSUBS.S",
       "EQ.S", "FRAMEADV.S", "GAMEBG.S", "GAMEEQ.S", "GRAFIX.S",
       "HIRES.S", "HRPARAMS.S", "HRTABLES.S", "MASTER.S", "MISC.S",
       "MOVEDATA.S", "MOVER.S", "SEQDATA.S", "SEQTABLE.S", "SOUND.S",
       "SOUNDNAMES.S", "SPECIALK.S", "SUBS.S", "TOPCTRL.S", "UNPACK.S",
       "VERSION.S" >>

\* the success criterion of run_tests
POP_BASELINE == 8

\* What the loop of run_tests observes of one file: its source is missing;
\* xasm++ fails on it (non-zero exit, timeout, exception); it assembles and
\* has no reference binary; it assembles and the reference binary is equal
\* to / different from the output; it assembles, has a reference binary, and
\* no output file exists.
PopOutcomes ==
    {"source_missing", "asm_fail", "no_reference", "match", "mismatch", "no_output"}

\* the environments: the files up to a split point share one outcome, the
\* files after it another
PopSplits == {0, POP_BASELINE - 1, POP_BASELINE, Len(POP_FILES) - 1, Len(POP_FILES)}

PopEnv(split, x, y) == [k \in 1..Len(POP_FILES) |-> IF k <= split THEN x ELSE y]

\* filename.replace(".S", "") on the names of POP_FILES
Basename(filename) == SubSeq(filename, 1, Len(filename) - 2)

\* the record appended to results: (basename, success, error, match)
PopResult(filename, outcome) ==
    [name    |-> Basename(filename),
     success |-> outcome \notin {"source_missing", "asm_fail"},
     error   |-> CASE outcome = "source_missing" -> "Source not found"
                   [] outcome = "asm_fail" -> "assembler error"
                   [] OTHER -> "None",
     match   |-> CASE outcome = "match" -> "True"
                   [] outcome \in {"mismatch", "no_output"} -> "False"
                   [] OTHER -> "None"]

InitPop ==
    /\ data = ZeroBytes(0) /\ prev = ZeroBytes(0) /\ ret = ZeroBytes(0)
    /\ name = <<>> /\ format = "none" /\ hist = <<>> /\ report = NoReport
    /\ twin = NoTwin
    /\ op = OpRecord("none", 0, 0, ZeroBytes(0), <<>>, 0, "ok", "")
    /\ a2 = NotRunning /\ rg = NotRunning
    /\ \E xasm_exists \in BOOLEAN, source_found \in BOOLEAN,
          split \in PopSplits, x \in PopOutcomes, y \in PopOutcomes :
          pop = [pc |-> "run_tests", xasm_exists |-> xasm_exists,
                 source_found |-> source_found, env |-> PopEnv(split, x, y),
                 i |-> 1, results |-> <<>>, assembled_count |-> 0,
                 reference_matches |-> 0, reference_available |-> 0,
                 verdict |-> "none", exit |-> 0]

\* run_tests up to the loop
PopStart ==
    /\ pop.pc = "run_tests"
    /\ pop' = IF ~pop.xasm_exists
              THEN [pop EXCEPT !.pc = "done", !.verdict = "xasm_missing", !.exit = 1]
              ELSE IF ~pop.source_found
              THEN [pop EXCEPT !.pc = "done", !.verdict = "skipped", !.exit = 0]
              ELSE [pop EXCEPT !.pc = "loop"]
    /\ UNCHANGED <<diskVars, a2, rg>>

\* the head of an iteration with no record appended for a file that is
\* missing or does not assemble
PopFile_NoRecordOnFailure ==
    /\ pop.pc = "loop"
    /\ pop.i <= Len(POP_FILES)
    /\ LET outcome == pop.env[pop.i]
       IN pop' = IF outcome \in {"source_missing", "asm_fail"}
                 THEN [pop EXCEPT !.i = pop.i + 1]
                 ELSE [pop EXCEPT !.pc = "assembled",
                                  !.assembled_count = pop.assembled_count + 1]
    /\ UNCHANGED <<diskVars, a2, rg>>

\* the loop over POP_FILES from the head of an iteration: a file whose source
\* is missing or that does not assemble gets its record and the loop goes on
\* (continue); for a file that assembles, assembled_count += 1
PopFile ==
    /\ pop.pc = "loop"
    /\ pop.i <= Len(POP_FILES)
    /\ LET outcome == pop.env[pop.i]
       IN pop' = IF outcome \in {"source_missing", "asm_fail"}
                 THEN [pop EXCEPT
                         !.i = pop.i + 1,
                         !.results = Append(pop.results,
                                            PopResult(POP_FILES[pop.i], outcome))]
                 ELSE [pop EXCEPT !.pc = "assembled",
                                  !.assembled_count = pop.assembled_count + 1]
    /\ UNCHANGED <<diskVars, a2, rg>>

\* compare_with_reference and results.append for a file that assembled
PopRecord ==
    /\ pop.pc = "assembled"
    /\ LET outcome == pop.env[pop.i]
           appended == Append(pop.results, PopResult(POP_FILES[pop.i], outcome))
       IN pop' = IF outcome = "no_reference"
                 THEN [pop EXCEPT !.pc = "loop", !.i = pop.i + 1, !.results = appended]
                 ELSE IF outcome = "match"
                 THEN [pop EXCEPT !.pc = "count_match", !.results = appended]
                 ELSE [pop EXCEPT !.pc = "count_available", !.results = appended]
    /\ UNCHANGED <<diskVars, a2, rg>>

\* reference_matches += 1 (byte-perfect match)
PopCountMatch ==
    /\ pop.pc = "count_match"
    /\ pop' = [pop EXCEPT !.pc = "count_available",
                         !.reference_matches = pop.reference_matches + 1]
    /\ UNCHANGED <<diskVars, a2, rg>>

\* reference_available += 1, the last statement of the iteration
PopCountAvailable ==
    /\ pop.pc = "count_available"
    /\ pop' = [pop EXCEPT !.pc = "loop", !.i = pop.i + 1,
                         !.reference_available = pop.reference_available + 1]
    /\ UNCHANGED <<diskVars, a2, rg>>

\* a test result that also fails on a reference mismatch
PopVerdict_MismatchFails ==
    /\ pop.pc = "loop"
    /\ pop.i > Len(POP_FILES)
    /\ pop' = IF pop.reference_matches < pop.reference_available
              THEN [pop EXCEPT !.pc = "done", !.verdict = "failed", !.exit = 1]
              ELSE IF pop.assembled_count = Len(POP_FILES)
              THEN [pop EXCEPT !.pc = "done", !.verdict = "all", !.exit = 0]
              ELSE IF pop.assembled_count >= POP_BASELINE
              THEN [pop EXCEPT !.pc = "done", !.verdict = "partial", !.exit = 0]
              ELSE [pop EXCEPT !.pc = "done", !.verdict = "failed", !.exit = 1]
    /\ UNCHANGED <<diskVars, a2, rg>>

\* the summary and the test result
PopVerdict ==
    /\ pop.pc = "loop"
    /\ pop.i > Len(POP_FILES)
    /\ pop' = IF pop.assembled_count = Len(POP_FILES)
              THEN [pop EXCEPT !.pc = "done", !.verdict = "all", !.exit = 0]
              ELSE IF pop.assembled_count >= POP_BASELINE
              THEN [pop EXCEPT !.pc = "done", !.verdict = "partial", !.exit = 0]
              ELSE [pop EXCEPT !.pc = "done", !.verdict = "failed", !.exit = 1]
    /\ UNCHANGED <<diskVars, a2, rg>>

NextPop ==
    \/ PopStart
    \/ PopFile
    \/ PopRecord
    \/ PopCountMatch
    \/ PopCountAvailable
    \/ PopVerdict

SpecPop == InitPop /\ [][NextPop]_vars

\* C18: the list of files the suite iterates over has 29 entries, and the
\* verdict "All 29 PoP files assemble successfully" is issued exactly when
\* 29 files were assembled.
C18_TwentyNineFiles ==
    (pop.pc = "done" /\ pop.verdict \in {"all", "partial", "failed"}) =>
        /\ Len(POP_FILES) = 29
        /\ Len(pop.results) = 29
        /\ pop.verdict = "all" <=> pop.assembled_count = 29

-----------------------------------------------------------------------------
(* Addresses outside the geometry, and the catalog chain of a fresh image *)

\* C19: for every pair (track, sector) outside [0,35) x [0,16), negative
\* values included, get_sector and set_sector raise an error and set_sector
\* leaves the image buffer (contents and length) unchanged.
C19_OutsideGeometryFails ==
    (op.name \in {"get_sector", "set_sector"} /\ ~IsValidAddr(op.track, op.sector)) =>
        /\ op.status = "ValueError"
        /\ data = prev
        /\ data.len = prev.len

\* the catalog sectors format_dos33 writes
FormatCatalogWrites == { <<DOS33_CATALOG_TRACK, DOS33_CATALOG_SECTOR>> }

\* C20: on a freshly formatted image the catalog chain from the VTOC's
\* first-catalog pointer reaches the terminator (next track = 0) without
\* visiting a sector twice, and visits no more sectors than the number of
\* catalog sectors format_dos33 wrote.
C20_ChainWithinWrittenSectors ==
    (hist = <<"format_dos33">> /\ op.status = "ok") =>
        /\ CatalogChainWellFormed(data)
        /\ Len(CatalogChain(data)) <= Cardinality(FormatCatalogWrites)

-----------------------------------------------------------------------------
(* The image after format_dos33 and later operations *)

\* format_dos33 has run and only add_file_dos33 calls followed it
FormattedThenFilesOnly ==
    \E k \in 1..Len(hist) :
        /\ hist[k] = "format_dos33"
        /\ \A j \in (k + 1)..Len(hist) : hist[j] = "add_file_dos33"

\* the tracks holding a sector of the catalog chain
ChainTracks(img) == {CatalogChain(img)[i][1] : i \in 1..Len(CatalogChain(img))}

\* C21: after format_dos33, and after any later add_file_dos33 calls, the
\* bitmap bits of the VTOC's track and of every track that holds a sector of
\* the catalog chain are all clear (allocated).
C21_SystemTracksAllocated ==
    FormattedThenFilesOnly =>
        \A t \in {DOS33_VTOC_TRACK} \cup ChainTracks(data) :
            \A sec \in ValidSectors : ~SectorFree(data, t, sec)

\* C21 witness: the image was formatted over a sector (17,2) that links to
\* track 34, so the chain leaves the VTOC's track
C21_Witness ==
    /\ hist = <<"set_sector", "format_dos33">>
    /\ 34 \in ChainTracks(data)
    /\ DOS33_CATALOG_TRACK \in ChainTracks(data)

-----------------------------------------------------------------------------
(* The catalog entries the verifier reports *)

\* the catalog sector the verifier reads
CatalogSectorOf(img) == PySlice(img, CatalogAt, CatalogAt + 256)

\* the slots of a catalog sector whose byte 0 is neither 0x00 nor 0xFF
LiveSlots(cat) == {i \in 0..6 : ByteAt(cat, EntryOffset(i)) \notin {0, 255}}

\* the position of live slot i among the live slots
SlotRank(cat, i) == Cardinality({j \in LiveSlots(cat) : j <= i})

\* C22: for each catalog entry slot i in [0,7) at sector offset 0x0B + i*0x23
\* the verifier decides liveness from entry byte 0 (0x00 unused, 0xFF deleted,
\* anything else live), reports as file type entry byte 1, and decodes the
\* name from entry bytes 3..32 with the high bit stripped.
C22_EntryFields ==
    (op.name = "file" /\ op.status = "exists" /\ report.status = "ok") =>
        LET cat == CatalogSectorOf(data)
        IN /\ report.file_entries = Cardinality(LiveSlots(cat))
           /\ \A i \in LiveSlots(cat) :
                 LET f == report.files[SlotRank(cat, i)]
                     field == PySlice(cat, EntryOffset(i) + 3, EntryOffset(i) + 33)
                 IN /\ f.file_type = ByteAt(cat, EntryOffset(i) + 1)
                    /\ f.filename = Strip(DecodeName(field, 0))

-----------------------------------------------------------------------------
(* The boot disk *)

\* a freshly formatted image
FreshFormatted == format_dos33(ZeroBytes(DISK_SIZE)).data

\* format_dos33 on a new image followed by set_sector(0, 0, blob) with a
\* 256-byte blob, by hand or in create_boot_disk
BootSequence ==
    \/ op.name = "create_boot_disk"
    \/ /\ hist = <<"format_dos33", "set_sector">>
       /\ op.track = 0 /\ op.sector = 0 /\ op.payload.len = 256

\* C23: in the boot-disk sequence image bytes 0..255 equal the blob, every
\* other byte equals the corresponding byte of a freshly formatted image, and
\* the verifier gives the image a valid verdict.
C23_BootDisk ==
    BootSequence =>
        /\ op.status = "ok"
        /\ data.len = FreshFormatted.len
        /\ PySlice(data, 0, 256) = op.payload
        /\ \A i \in DOMAIN data.nz \cup DOMAIN FreshFormatted.nz :
              i >= 256 => SameByte(data, FreshFormatted, i)
        /\ report.status # "none" => (report.status = "ok" /\ report.valid)

\* C23 witness: the verifier has run on the image of create_boot_disk, whose
\* first sector holds the boot program
C23_Witness ==
    /\ op.name = "create_boot_disk"
    /\ report.status = "ok" /\ report.valid
    /\ report.non_zero = Cardinality(DOMAIN boot_code.nz)
    /\ ByteAt(data, 24) = 72

-----------------------------------------------------------------------------
(* The exit code and the counters of test_pop_complete.run_tests *)

\* the files of the environment on which xasm++ succeeds
PopAssembling(env) ==
    {k \in 1..Len(POP_FILES) : env[k] \notin {"source_missing", "asm_fail"}}

\* C24: run_tests returns 1 when the xasm++ binary is missing; otherwise 0
\* when the PoP source directory is not found; otherwise 0 if and only if at
\* least 8 files assembled.  Reference mismatches and missing references
\* never change the exit code.
C24_PopExitCode ==
    pop.pc = "done" =>
        /\ ~pop.xasm_exists => pop.exit = 1
        /\ (pop.xasm_exists /\ ~pop.source_found) => pop.exit = 0
        /\ (pop.xasm_exists /\ pop.source_found) =>
              /\ pop.exit \in {0, 1}
              /\ pop.exit = 0 <=> Cardinality(PopAssembling(pop.env)) >= 8

\* C24 witness: exactly 8 files assembled, each differing from its reference
\* binary, and the run returned 0
C24_Witness ==
    /\ pop.pc = "done" /\ pop.exit = 0
    /\ pop.assembled_count = 8
    /\ pop.reference_available = 8 /\ pop.reference_matches = 0

-----------------------------------------------------------------------------
(* add_file_dos33 and create_data_disk leave the image as it was *)

\* C25: add_file_dos33 never modifies the image: the buffer after the call
\* is identical to the buffer before it, and the image of create_data_disk
\* equals a freshly formatted image whatever input files it is given.
C25_AddFileWritesNothing ==
    /\ op.name = "add_file_dos33" => (data = prev /\ op.status = "ok")
    /\ op.name = "create_data_disk" => data = FreshFormatted

\* C25 witness: create_data_disk added two files and saved its image
C25_Witness ==
    /\ op.name = "create_data_disk" /\ op.status = "ok"
    /\ op.track = 2 /\ op.sector = 2

-----------------------------------------------------------------------------
(* What format_dos33 writes *)

\* C26: format_dos33 overwrites all 256 bytes of sector (17,0) and of sector
\* (17,1) with fixed content and changes no other byte of the image; it is
\* idempotent and does not clear data previously written to another sector.
C26_FormatWritesTwoSectors ==
    op.name = "format_dos33" =>
        /\ op.status = "ok"
        /\ data.len = prev.len
        /\ PySlice(data, VtocAt, VtocAt + 256) = BuildVtoc
        /\ PySlice(data, CatalogAt, CatalogAt + 256) = BuildCatalog
        /\ \A i \in DOMAIN data.nz \cup DOMAIN prev.nz :
              (i < VtocAt \/ i >= CatalogAt + 256) => SameByte(data, prev, i)
        /\ format_dos33(data).data = data

\* C26 witness: format_dos33 ran on an image holding a 256-byte payload in
\* sector (0,0), which is still there
C26_Witness ==
    /\ hist = <<"set_sector", "format_dos33">>
    /\ ByteAt(prev, 0) = 165 /\ ByteAt(prev, 255) = 90
    /\ ByteAt(data, 0) = 165 /\ ByteAt(data, 255) = 90
    /\ ByteAt(data, VtocAt + 3) = 3

-----------------------------------------------------------------------------
(* The volume name and the image bytes *)

\* C27: the bytes of an image do not depend on the volume name: the same
\* sequence of operations on DiskImage(name=n1) and DiskImage(name=n2) yields
\* byte-identical buffers.
C27_NameNotInImage ==
    twin.name # name => twin.data = data

\* C27 witness: two images with different names were formatted
C27_Witness ==
    /\ op.name = "format_dos33" /\ op.status = "ok"
    /\ twin.name # name /\ Len(twin.name) > 0
    /\ ByteAt(data, VtocAt + 6) = 254 /\ ByteAt(twin.data, VtocAt + 6) = 254

-----------------------------------------------------------------------------
(* Short payloads, and reading back what was written *)

\* C28: set_sector on a valid address with a payload of n < 256 bytes
\* overwrites only the first n bytes of the sector and leaves the remaining
\* 256 - n bytes of the sector at their previous values.
C28_ShortPayloadNotPadded ==
    (op.name = "set_sector" /\ IsValidAddr(op.track, op.sector)
                            /\ op.payload.len < 256) =>
        /\ op.status = "ok"
        /\ data.len = prev.len
        /\ \A i \in 0..255 :
              ByteAt(data, RangeLo(op.track, op.sector) + i) =
                  IF i < op.payload.len THEN ByteAt(op.payload, i)
                  ELSE ByteAt(prev, RangeLo(op.track, op.sector) + i)

\* C28 witness: a 1-byte payload was written over a sector holding a
\* 256-byte payload, whose last byte is still there
C28_Witness ==
    /\ hist = <<"set_sector", "set_sector">>
    /\ op.track = 34 /\ op.sector = 15 /\ op.payload.len = 1 /\ op.status = "ok"
    /\ ByteAt(prev, RangeLo(34, 15)) = 165 /\ ByteAt(prev, RangeLo(34, 15) + 255) = 90
    /\ ByteAt(data, RangeLo(34, 15)) = 255 /\ ByteAt(data, RangeLo(34, 15) + 255) = 90

\* the 256 bytes of a sector of an image
SectorOf(img, track, sector) ==
    PySlice(img, RangeLo(track, sector), RangeHi(track, sector))

\* C29: set_sector(t, s, d) on a valid address with a 256-byte payload makes
\* get_sector(t, s) return d and leaves what get_sector returns for every
\* other valid address as it was; get_sector returns the sector's bytes as a
\* copy: a store into the returned buffer does not change the image.
C29_ReadBackAndCopy ==
    /\ (op.name = "set_sector" /\ IsValidAddr(op.track, op.sector)
                               /\ op.payload.len = 256) =>
          /\ op.status = "ok"
          /\ get_sector(data, op.track, op.sector).ret = op.payload
          /\ \A a \in ValidAddrs \ {<<op.track, op.sector>>} :
                get_sector(data, a[1], a[2]).ret = get_sector(prev, a[1], a[2]).ret
    /\ (op.name = "get_sector" /\ IsValidAddr(op.track, op.sector)) =>
          /\ op.status = "ok"
          /\ ret = SectorOf(data, op.track, op.sector)
          /\ ret.len = 256
    /\ op.name = "store_in_returned" =>
          /\ data = prev
          /\ IsValidAddr(op.track, op.sector) =>
                ByteAt(ret, 0) # ByteAt(data, RangeLo(op.track, op.sector))

\* C29 witness: a 256-byte payload was written to sector (17,1) and read
\* back, and the caller changed byte 0 of the buffer it got
C29_Witness ==
    /\ hist = <<"set_sector", "get_sector">>
    /\ op.name = "store_in_returned" /\ op.track = 17 /\ op.sector = 1
    /\ ByteAt(data, CatalogAt) = 165 /\ ByteAt(data, CatalogAt + 255) = 90
    /\ ByteAt(ret, 0) = 90 /\ ByteAt(ret, 255) = 90

\* run_tests is in its file loop: at the head of an iteration (or past the
\* last one), or between two statements of an iteration
PopInLoop == pop.pc \in {"loop", "assembled", "count_match", "count_available"}

\* C30 as stated: at every point of the file loop reference_matches <=
\* reference_available <= assembled_count <= number of files processed so far
\* <= len(POP_FILES), and results holds one record per processed file.  The
\* file of the current iteration may or may not count as processed.
C30_CountersOrderedAtEveryPoint ==
    PopInLoop =>
        \E processed \in {pop.i - 1, pop.i} :
            /\ pop.reference_matches <= pop.reference_available
            /\ pop.reference_available <= pop.assembled_count
            /\ pop.assembled_count <= processed
            /\ processed <= Len(POP_FILES)
            /\ Len(pop.results) = processed

\* C30 amended: at the head of every iteration of the file loop and when the
\* loop has ended, reference_matches <= reference_available <= assembled_count
\* <= number of files processed <= len(POP_FILES), and results holds exactly
\* one record per processed file, in the order of POP_FILES.
C30_CountersOrderedBetweenIterations ==
    (pop.pc = "loop" \/ (pop.pc = "done" /\ pop.verdict \in {"all", "partial", "failed"})) =>
        /\ pop.reference_matches <= pop.reference_available
        /\ pop.reference_available <= pop.assembled_count
        /\ pop.assembled_count <= pop.i - 1
        /\ pop.i - 1 <= Len(POP_FILES)
        /\ Len(pop.results) = pop.i - 1
        /\ \A k \in 1..Len(pop.results) :
              pop.results[k].name = Basename(POP_FILES[k])

\* C30 witness: the loop has processed all files; 8 matched their reference
\* binary and the other 18 differed from it
C30_Witness ==
    /\ pop.pc = "loop" /\ pop.i = Len(POP_FILES) + 1
    /\ pop.reference_matches = 8
    /\ pop.reference_available = Len(POP_FILES)
    /\ pop.assembled_count = Len(POP_FILES)
    /\ Len(pop.results) = Len(POP_FILES)

====
